---- MODULE Spec2Model ----
(***************************************************************************)
(* Bindora / DrugMatcher front end: the home page with its statistics and  *)
(* its SearchForm, the results page (URL-driven search, search bar, result *)
(* grid) and the drug detail modal, together with the HTTP client in       *)
(* lib/api.ts, also called on its own.  The back                           *)
(* end is not part of the sources at hand; its answers are modelled from   *)
(* the interface contract (search results ranked and bounded, errors with  *)
(* a descriptive detail).                                                  *)
(*                                                                         *)
(* Text is modelled as a sequence of one-character strings so that trim,   *)
(* URL encoding and truthiness are computed, not assumed.  Numbers that    *)
(* are floats in the program (binding_score, molecular_weight, logp) are   *)
(* integers here; the comparisons made on them are kept.                   *)
(***************************************************************************)
EXTENDS Integers, Sequences, FiniteSets, TLC

VARIABLES
    route,          \* which page is mounted: "home" or "results"
    \* SearchForm (home page)
    sfQueryType, sfQuery, sfIsLoading, sfError,
    \* ResultsPageContent
    url,            \* the current search parameters of /results
    drugs, isLoading, error, selectedDrug, query, queryType,
    searches,       \* POST /api/search requests in flight, in issue order
    \* DrugDetailModal (mounted iff selectedDrug is not null)
    mDrug, mIsLoading, mError,
    details,        \* GET /api/drug/{id} requests in flight, in issue order
    mFresh,         \* the modal's chemblId has not changed since it mounted
    \* HomePage
    stats,          \* the three platform statistics on display
    statsPending,   \* the mount effect's getStats request is in flight
    \* SearchForm's onSearch prop: "none", "returns" or "throws"
    sfOnSearch,
    \* lib/api.ts called directly
    apiPending,     \* the fetches of the last call that are in flight
    apiCall,        \* the last call: function, arguments, how its promise settled
    lastEvent       \* the handler or continuation that ran last, with its input

vars == <<route, sfQueryType, sfQuery, sfIsLoading, sfError,
          url, drugs, isLoading, error, selectedDrug, query, queryType, searches,
          mDrug, mIsLoading, mError, details, mFresh,
          stats, statsPending, sfOnSearch, apiPending, apiCall, lastEvent>>

formVars == <<sfQueryType, sfQuery, sfIsLoading, sfError>>
pageVars == <<url, drugs, isLoading, error, selectedDrug, query, queryType, searches>>
modalVars == <<mDrug, mIsLoading, mError, details, mFresh>>
homeVars == <<stats, statsPending>>
apiVars == <<apiPending, apiCall>>

----------------------------------------------------------------------------
(* Bounds of the model *)

\* search requests that may be in flight at once
MaxSearches == 2
\* detail requests that may be in flight at once
MaxDetails == 2
\* size of the server's candidate corpus
NumDrugs == 22
\* the cards a user opens are among the first MaxCard of the grid
MaxCard == 5

----------------------------------------------------------------------------
(* Text *)

Chars == {" ", "a"}

\* texts typed into SearchForm: empty, blank, plain, with leading blank
Texts == {<<>>, <<" ">>, <<"a">>, <<" ", "a">>}

\* texts typed into the results page's search bar
BarTexts == {<<>>, <<" ">>, <<"a">>}

EmptyText == <<>>

\* JavaScript's null for a string-valued state (error, mError)
Null == "<null>"

\* null for selectedDrug (chembl ids are positive)
NoDrugId == 0

\* null for the modal's drug
NoDrug == [chembl_id |-> NoDrugId]

IsWhitespace(c) == c = " "

RECURSIVE TrimStart(_)
TrimStart(s) ==
    IF s = <<>> THEN <<>>
    ELSE IF IsWhitespace(Head(s)) THEN TrimStart(Tail(s)) ELSE s

RECURSIVE TrimEnd(_)
TrimEnd(s) ==
    IF s = <<>> THEN <<>>
    ELSE IF IsWhitespace(s[Len(s)]) THEN TrimEnd(SubSeq(s, 1, Len(s) - 1)) ELSE s

\* String.prototype.trim
Trim(s) == TrimEnd(TrimStart(s))

\* truthiness of a JavaScript string held as text
TruthyText(s) == s # EmptyText

\* truthiness of string | null held as a TLA+ string
TruthyStr(s) == s # Null /\ s # ""

----------------------------------------------------------------------------
(* URL search parameters *)

\* URLSearchParams.toString(): form-urlencoding of one value
EncodeChar(c) == IF c = " " THEN "+" ELSE c

EncodeText(s) == [i \in 1..Len(s) |-> EncodeChar(s[i])]

\* URLSearchParams.get(): decoding of one value
DecodeChar(c) == IF c = "+" THEN " " ELSE c

DecodeText(s) == [i \in 1..Len(s) |-> DecodeChar(s[i])]

QueryTypes == {"gene", "disease", "sequence"}

\* search parameters of /results; each of q and type may be absent
UrlParams(hasQ, q, hasType, type) ==
    [hasQ |-> hasQ, q |-> q, hasType |-> hasType, type |-> type]

NoParams == UrlParams(FALSE, EmptyText, FALSE, "")

\* the URLs opened by hand, bookmark or history: /results, ?q=&type=gene,
\* ?q=a, ?q=a&type=, ?q=a&type=gene, ?q=+&type=gene, ?q=a&type=bogus
Urls ==
    {NoParams,
     UrlParams(TRUE, EmptyText, TRUE, "gene"),
     UrlParams(TRUE, <<"a">>, FALSE, ""),
     UrlParams(TRUE, <<"a">>, TRUE, ""),
     UrlParams(TRUE, <<"a">>, TRUE, "gene"),
     UrlParams(TRUE, <<" ">>, TRUE, "gene"),
     UrlParams(TRUE, <<"a">>, TRUE, "bogus")}

\* a form that pushes the trimmed query
PushedUrlTrimmed(q, ty) == UrlParams(TRUE, DecodeText(EncodeText(Trim(q))), TRUE, ty)

\* the URL SearchForm pushes: /results?q=<query>&type=<queryType>, as read back
\* by useSearchParams
PushedUrl(q, ty) == UrlParams(TRUE, DecodeText(EncodeText(q)), TRUE, ty)

----------------------------------------------------------------------------
(* Drug records and the server's answers (interface contract) *)

Min(a, b) == IF a <= b THEN a ELSE b

\* Lipinski's rule of five as the contract states it
Lipinski(mw, lp, donors, acceptors) ==
    mw < 500 /\ lp < 5 /\ donors <= 5 /\ acceptors <= 10

\* the server's score of candidate i, in 0..100 (two candidates may tie)
Score(i) == (((i + 18) * 37) % 21) * 5

\* candidate i of the corpus; the molecular properties sit on the Lipinski
\* thresholds: all four rules pass, or exactly one fails by the least amount
DrugOf(i) ==
    LET mw == IF i % 6 = 2 THEN 500 ELSE 499
        lp == IF i % 6 = 3 THEN 5 ELSE 4
        donors == IF i % 6 = 4 THEN 6 ELSE 5
        acceptors == IF i % 6 = 5 THEN 11 ELSE 10
    IN  [chembl_id |-> i,
         binding_score |-> Score(i),
         molecular_weight |-> mw,
         logp |-> lp,
         hbd |-> donors,
         hba |-> acceptors,
         is_drug_like |-> Lipinski(mw, lp, donors, acceptors),
         clinical_phase |-> i % 5]

\* the candidates ids, highest binding score first (ties: lowest id first)
RECURSIVE Ranked(_)
Ranked(ids) ==
    IF ids = {} THEN <<>>
    ELSE LET best == CHOOSE i \in ids :
                        \A j \in ids : \/ Score(i) > Score(j)
                                       \/ Score(i) = Score(j) /\ i <= j
         IN  <<DrugOf(best)>> \o Ranked(ids \ {best})

Take(s, n) == SubSeq(s, 1, Min(Len(s), n))

\* documented ceiling of max_results
MaxResultsCeiling == 100

\* numbers of candidates a query may match
MatchCounts == {0, 5, NumDrugs}

\* the server's ranking of the first n candidates
Ranking == [n \in MatchCounts |-> Ranked(1..n)]

NoResults == <<>>

\* an HTTP exchange as the client sees it: net = FALSE when fetch itself rejects
Response(net, ok, status, json, hasDetail, detail, results, drug) ==
    [net |-> net, ok |-> ok, status |-> status, json |-> json,
     hasDetail |-> hasDetail, detail |-> detail, results |-> results,
     total |-> Len(results), drug |-> drug]

NetworkFailure == Response(FALSE, FALSE, 0, FALSE, FALSE, "", NoResults, NoDrug)

ErrorWithDetail(status, detail) ==
    Response(TRUE, FALSE, status, TRUE, TRUE, detail, NoResults, NoDrug)

\* answers that come from the transport or a gateway, whatever the request
TransportResponses ==
    {NetworkFailure,
     \* non-OK with a body that is not JSON
     Response(TRUE, FALSE, 502, FALSE, FALSE, "", NoResults, NoDrug),
     \* non-OK with a JSON body that carries no detail
     Response(TRUE, FALSE, 503, TRUE, FALSE, "", NoResults, NoDrug),
     \* OK with a body that is not JSON
     Response(TRUE, TRUE, 200, FALSE, FALSE, "", NoResults, NoDrug)}

\* an OK answer of POST /api/search: total counts the results returned or the
\* candidates matched
SearchAnswer(results, total) ==
    [Response(TRUE, TRUE, 200, TRUE, FALSE, "", results, NoDrug) EXCEPT !.total = total]

\* POST /api/search
ServerSearch(req) ==
    IF req.query = EmptyText
    THEN {ErrorWithDetail(400, "Query must not be empty")}
    ELSE IF req.query_type \notin QueryTypes
    THEN {ErrorWithDetail(422, "Invalid query type")}
    ELSE IF req.max_results < 1 \/ req.max_results > MaxResultsCeiling
    THEN {ErrorWithDetail(422, "Invalid max_results")}
    ELSE UNION {{SearchAnswer(Take(Ranking[n], req.max_results), t) :
                    t \in {Min(n, req.max_results), n}} : n \in MatchCounts}
         \cup {ErrorWithDetail(500, "Internal server error")}

\* GET /api/drug/{id}
ServerDrug(id) ==
    {Response(TRUE, TRUE, 200, TRUE, FALSE, "", NoResults, DrugOf(id)),
     ErrorWithDetail(404, "Drug not found in database"),
     ErrorWithDetail(500, "Internal server error")}

----------------------------------------------------------------------------
(* lib/api.ts *)

\* the JSON body searchDrugs posts for its params
SearchRequest(params) ==
    [query |-> params.query,
     query_type |-> params.queryType,
     max_results |-> params.maxResults]

\* a client that drops the body's detail
ErrorMessageFallbackOnly(resp, fallback) == fallback

\* message of the Error thrown for a non-OK response:
\* (await response.json().catch(() => ({detail: fallback}))).detail || fallback
ErrorMessage(resp, fallback) ==
    IF resp.json /\ resp.hasDetail /\ resp.detail # "" THEN resp.detail ELSE fallback

\* how a promise of the client settles
Fulfilled(results, drug) ==
    [fulfilled |-> TRUE, results |-> results, drug |-> drug, message |-> ""]

Rejected(message) ==
    [fulfilled |-> FALSE, results |-> NoResults, drug |-> NoDrug, message |-> message]

IsDrugLike(d) == d.is_drug_like

\* a client that keeps the drug-like results only
searchDrugsDrugLikeOnly(resp) ==
    IF ~resp.net THEN Rejected("Failed to fetch")
    ELSE IF ~resp.ok THEN Rejected(ErrorMessage(resp, "Search failed"))
    ELSE IF ~resp.json THEN Rejected("Unexpected token in JSON")
    ELSE Fulfilled(SelectSeq(resp.results, IsDrugLike), NoDrug)

\* searchDrugs, from the exchange to the settled promise
searchDrugs(resp) ==
    IF ~resp.net THEN Rejected("Failed to fetch")
    ELSE IF ~resp.ok THEN Rejected(ErrorMessage(resp, "Search failed"))
    ELSE IF ~resp.json THEN Rejected("Unexpected token in JSON")
    ELSE Fulfilled(resp.results, NoDrug)

\* getDrugDetails, from the exchange to the settled promise
getDrugDetails(resp) ==
    IF ~resp.net THEN Rejected("Failed to fetch")
    ELSE IF ~resp.ok THEN Rejected(ErrorMessage(resp, "Drug not found"))
    ELSE IF ~resp.json THEN Rejected("Unexpected token in JSON")
    ELSE Fulfilled(NoResults, resp.drug)

\* a fetch as it goes out: the path is the list of segments after API_BASE_URL
Fetch(method, path, hasBody, body) ==
    [method |-> method, path |-> path, hasBody |-> hasBody, body |-> body]

NoBody == [query |-> EmptyText, query_type |-> "", max_results |-> 0]

\* a searchDrugs that always posts the default max_results
SearchFetchDefaultMax(params) ==
    <<Fetch("POST", <<"api", "search">>, TRUE,
            [SearchRequest(params) EXCEPT !.max_results = 20])>>

\* the fetches searchDrugs issues: fetch(`${API_BASE_URL}/api/search`, {method: 'POST', ...})
SearchFetch(params) ==
    <<Fetch("POST", <<"api", "search">>, TRUE, SearchRequest(params))>>

\* the fetches getDrugDetails issues: fetch(`${API_BASE_URL}/api/drug/${chemblId}`)
DetailFetch(chemblId) ==
    <<Fetch("GET", <<"api", "drug", chemblId>>, FALSE, NoBody)>>

\* the fetches getStats issues: fetch(`${API_BASE_URL}/api/stats`)
StatsFetch == <<Fetch("GET", <<"api", "stats">>, FALSE, NoBody)>>

\* the fetches healthCheck issues: fetch(`${API_BASE_URL}/`)
HealthFetch == <<Fetch("GET", <<>>, FALSE, NoBody)>>

\* an exchange whose JSON body is a single record
BodyResponse(net, ok, status, json, body) ==
    [net |-> net, ok |-> ok, status |-> status, json |-> json, body |-> body]

EmptyBody == [status |-> ""]

BodyTransportResponses ==
    {BodyResponse(FALSE, FALSE, 0, FALSE, EmptyBody),
     BodyResponse(TRUE, FALSE, 503, TRUE, EmptyBody),
     BodyResponse(TRUE, TRUE, 200, FALSE, EmptyBody)}

\* GET /api/stats: approximate counts
ServerStats ==
    {BodyResponse(TRUE, TRUE, 200, TRUE,
                  [total_drugs |-> d, total_targets |-> 20000 + d, predictions_made |-> 10 * d]) :
         d \in {0, 3000, 3200}}
    \cup {BodyResponse(TRUE, FALSE, 500, TRUE, EmptyBody)}

\* GET /: the API's banner
ServerRoot ==
    {BodyResponse(TRUE, TRUE, 200, TRUE,
                  [message |-> "Drug-Target Matcher API", status |-> "running",
                   version |-> "1.0.0"])}

\* GET /health
ServerHealth ==
    {BodyResponse(TRUE, TRUE, 200, TRUE,
                  [status |-> "healthy", service |-> "drug-target-matcher"])}

FulfilledWith(value) == [fulfilled |-> TRUE, value |-> value, message |-> ""]

RejectedWith(message) == [fulfilled |-> FALSE, value |-> EmptyBody, message |-> message]

\* getStats, from the exchange to the settled promise
getStats(resp) ==
    IF ~resp.net THEN RejectedWith("Failed to fetch")
    ELSE IF ~resp.ok THEN RejectedWith("Failed to fetch stats")
    ELSE IF ~resp.json THEN RejectedWith("Unexpected token in JSON")
    ELSE FulfilledWith(resp.body)

\* healthCheck, from the exchange to the settled promise
healthCheck(resp) ==
    IF ~resp.net THEN RejectedWith("Failed to fetch")
    ELSE IF ~resp.ok THEN RejectedWith("Health check failed")
    ELSE IF ~resp.json THEN RejectedWith("Unexpected token in JSON")
    ELSE FulfilledWith(resp.body)

\* the answers a fetch can get, by the path it asks for
Serve(f) ==
    IF f.path = <<"api", "search">> THEN ServerSearch(f.body) \cup TransportResponses
    ELSE IF f.path = <<"api", "stats">> THEN ServerStats \cup BodyTransportResponses
    ELSE IF f.path = <<"health">> THEN ServerHealth \cup BodyTransportResponses
    ELSE IF f.path = <<>> THEN ServerRoot \cup BodyTransportResponses
    ELSE ServerDrug(f.path[3]) \cup TransportResponses

\* the promise of the function fn, settled by the exchange
Settle(fn, resp) ==
    CASE fn = "searchDrugs" -> searchDrugs(resp)
      [] fn = "getDrugDetails" -> getDrugDetails(resp)
      [] fn = "getStats" -> getStats(resp)
      [] fn = "healthCheck" -> healthCheck(resp)

\* a call of lib/api.ts and its promise
Call(fn, args) == [fn |-> fn, args |-> args, settled |-> FALSE, outcome |-> RejectedWith("")]

NoCall == Call("", <<>>)

----------------------------------------------------------------------------
(* The last handler that ran, for stating what a handler leaves behind *)

NoRequest == [query |-> EmptyText, query_type |-> "", max_results |-> 0]

NoResponse == Response(FALSE, FALSE, -1, FALSE, FALSE, "", NoResults, NoDrug)

\* resp: the answer of the request that settled; overtook: that request was issued
\* by the step before, so it is the most recently issued one, and it succeeded
\* while an older request was still in flight; called: the
\* argument pairs the handler passed to the onSearch prop; pushed: the URLs it
\* passed to router.push; escaped: an exception left the handler
Event(op, req, resp) ==
    [op |-> op, resp |-> resp, overtook |-> FALSE,
     called |-> <<>>, pushed |-> <<>>, escaped |-> FALSE]

SubmitEvent(op, called, pushed, escaped) ==
    [Event(op, NoRequest, NoResponse) EXCEPT
        !.called = called, !.pushed = pushed, !.escaped = escaped]

----------------------------------------------------------------------------
(* SearchForm *)

\* a validation that does not trim
SearchFormAcceptsUntrimmed(q) == TruthyText(q)

\* handleSubmit's validation: if (!query.trim()) reject
SearchFormAccepts(q) == TruthyText(Trim(q))

\* what the onSearch prop may be: absent, a function that returns, one that throws
OnSearchModes == {"none", "returns", "throws"}

\* a handler without its finally
SubmitFinallyMissing(loading) == loading

\* handleSubmit's finally: setIsLoading(false)
SubmitFinally(loading) == FALSE

\* handleSubmit's catch: setError('Search failed. Please try again.'); nothing is
\* thrown again
SubmitCatch(thrown) ==
    [error |-> IF thrown THEN "Search failed. Please try again." ELSE "",
     escaped |-> FALSE]

FreshForm ==
    /\ sfQueryType' = "gene"
    /\ sfQuery' = EmptyText
    /\ sfIsLoading' = FALSE
    /\ sfError' = ""

----------------------------------------------------------------------------
(* ResultsPageContent *)

\* maxResults of every search the page issues
PageMaxResults == 20

\* an effect that tests q against null only: if (q !== null && type)
UrlHasSearchNullCheck(u) == u.hasQ /\ u.hasType /\ u.type # ""

\* the useEffect's test: if (q && type)
UrlHasSearch(u) == u.hasQ /\ TruthyText(u.q) /\ u.hasType /\ u.type # ""

\* a page that asks for every candidate
SearchParamsNoLimit(searchQuery, searchType) ==
    [query |-> searchQuery, queryType |-> searchType, maxResults |-> 0]

\* performSearch's call of searchDrugs
SearchParams(searchQuery, searchType) ==
    [query |-> searchQuery, queryType |-> searchType, maxResults |-> PageMaxResults]

\* a page that adds the new results to the ones it holds
SetDrugsAppend(old, results) == old \o results

\* performSearch's success path: setDrugs(response.results)
SetDrugs(old, results) == results

\* a catch that also clears the list
DrugsClearedOnFailure(old) == <<>>

\* performSearch's catch and finally call no setDrugs: the list stays
DrugsAfterFailure(old) == old

\* a catch that always takes the fallback
CaughtMessageFallback(outcome) == "Search failed"

\* performSearch's catch: err instanceof Error ? err.message : 'Search failed'
CaughtMessage(outcome) == outcome.message

\* performSearch up to its await, on top of the given query and queryType
StartSearch(searchQuery, searchType) ==
    /\ isLoading' = TRUE
    /\ error' = Null
    /\ searches' = Append(searches, SearchRequest(SearchParams(searchQuery, searchType)))

\* the effect on [searchParams]
UrlEffect(u) ==
    IF UrlHasSearch(u)
    THEN /\ query' = u.q
         /\ queryType' = u.type
         /\ StartSearch(u.q, u.type)
    ELSE /\ isLoading' = FALSE
         /\ UNCHANGED <<query, queryType, error, searches>>

\* a summary that does not wait for the search
ShowsSummaryWhileLoading == ~TruthyStr(error)

\* what is on screen
ShowsQueryLabel == TruthyText(query)
ShowsSummary == ~isLoading /\ ~TruthyStr(error)
SummaryCount == Len(drugs)
ShowsSearchError == TruthyStr(error)
ShowsNoResults == ~isLoading /\ ~TruthyStr(error) /\ Len(drugs) = 0 /\ TruthyText(query)
ShowsInitial == ~isLoading /\ ~TruthyText(query)
ShowsModal == selectedDrug # NoDrugId

Reverse(s) == [i \in 1..Len(s) |-> s[Len(s) + 1 - i]]

\* a grid that lists the cards last to first
DrugGridCardsReversed(ds, loading) == IF loading THEN <<>> ELSE Reverse(ds)

\* DrugGrid: the drugs shown as cards, in order
DrugGridCards(ds, loading) == IF loading THEN <<>> ELSE ds

Cards == DrugGridCards(drugs, isLoading)

\* a grid that keeps the cards under the skeletons
DrugGridCardsWhileLoading(ds, loading) ==
    IF loading
    THEN [skeletons |-> 6, message |-> FALSE, cards |-> ds,
          keys |-> [k \in 1..Len(ds) |-> ds[k].chembl_id]]
    ELSE IF Len(ds) = 0
    THEN [skeletons |-> 0, message |-> TRUE, cards |-> <<>>, keys |-> <<>>]
    ELSE [skeletons |-> 0, message |-> FALSE, cards |-> ds,
          keys |-> [k \in 1..Len(ds) |-> ds[k].chembl_id]]

\* DrugGrid's three returns: the skeleton placeholders, the 'No drugs found'
\* message, or one DrugCard per drug with key={drug.chembl_id}
DrugGrid(ds, loading) ==
    IF loading
    THEN [skeletons |-> 6, message |-> FALSE, cards |-> <<>>, keys |-> <<>>]
    ELSE IF Len(ds) = 0
    THEN [skeletons |-> 0, message |-> TRUE, cards |-> <<>>, keys |-> <<>>]
    ELSE [skeletons |-> 0, message |-> FALSE, cards |-> DrugGridCards(ds, loading),
          keys |-> [k \in 1..Len(ds) |-> ds[k].chembl_id]]

\* <DrugGrid drugs={drugs} isLoading={isLoading} ... />
Grid == DrugGrid(drugs, isLoading)

----------------------------------------------------------------------------
(* DrugCard and DrugDetailModal *)

\* a bar that takes the score for a fraction of one
BarWidthOfFraction(drug) == drug.binding_score * 100

\* width of the binding-score bar, in percent: style={{ width: `${binding_score}%` }}
BarWidth(drug) == drug.binding_score

\* a phase counted from one
PhaseArgFromOne(drug) == drug.clinical_phase + 1

\* argument handed to getClinicalPhaseLabel / getClinicalPhaseColor
PhaseArg(drug) == drug.clinical_phase

\* DrugCard: the 'Drug-like (Lipinski)' badge is rendered
CardShowsDrugLike(drug) == drug.is_drug_like

\* modal: 'Passes Lipinski' (TRUE) or 'Fails Lipinski' (FALSE)
ModalPassesLipinski(drug) == drug.is_drug_like

\* rule rows with a strict test of the donors
RuleChecksStrictDonors(drug) ==
    <<drug.molecular_weight < 500, drug.logp < 5, drug.hbd < 5, drug.hba <= 10>>

\* modal, Properties tab: the four RuleCheck rows, in order
RuleChecks(drug) ==
    <<drug.molecular_weight < 500, drug.logp < 5, drug.hbd <= 5, drug.hba <= 10>>

AllRulesPass(drug) == \A i \in 1..4 : RuleChecks(drug)[i]

\* what the modal renders
ModalShowsError == ShowsModal /\ TruthyStr(mError)
ModalShowsSkeleton == ShowsModal /\ mIsLoading
ModalShowsTabs == ShowsModal /\ ~mIsLoading /\ mDrug # NoDrug

\* a catch that records nothing
ModalCaughtNothing(outcome) == Null

\* loadDrugDetails' catch: err instanceof Error ? err.message : 'Failed to load drug details'
ModalCaughtMessage(outcome) == outcome.message

FreshModal ==
    /\ mDrug' = NoDrug
    /\ mIsLoading' = TRUE
    /\ mError' = Null
    /\ details' = <<>>
    /\ mFresh' = TRUE

----------------------------------------------------------------------------
(* Initial state: the application opened on the home page *)

----------------------------------------------------------------------------
(* HomePage *)

\* useState's initial stats
DefaultStats ==
    [total_drugs |-> 3000, total_targets |-> 20000, predictions_made |-> 150000]

\* a home page that takes the drug count only
SetStatsDrugsOnly(old, data) == [old EXCEPT !.total_drugs = data.total_drugs]

\* loadStats' success path: setStats(data)
SetStats(old, data) == data

\* HomePage mounts: the stats are the defaults and the effect calls getStats
HomePageMounts ==
    /\ stats' = DefaultStats
    /\ statsPending' = TRUE

\* HomePage unmounts: its state is gone and a late answer sets nothing
HomePageUnmounts ==
    /\ stats' = DefaultStats
    /\ statsPending' = FALSE

\* the home page just mounted, its form given the prop onSearch
InitWith(onSearch) ==
    /\ route = "home"
    /\ sfQueryType = "gene"
    /\ sfQuery = EmptyText
    /\ sfIsLoading = FALSE
    /\ sfError = ""
    /\ url = NoParams
    /\ drugs = <<>>
    /\ isLoading = TRUE
    /\ error = Null
    /\ selectedDrug = NoDrugId
    /\ query = EmptyText
    /\ queryType = "gene"
    /\ searches = <<>>
    /\ mDrug = NoDrug
    /\ mIsLoading = TRUE
    /\ mError = Null
    /\ details = <<>>
    /\ mFresh = TRUE
    /\ stats = DefaultStats
    /\ statsPending = TRUE
    /\ sfOnSearch = onSearch
    /\ apiPending = <<>>
    /\ apiCall = NoCall
    /\ lastEvent = Event("init", NoRequest, NoResponse)

\* HomePage renders <SearchForm /> without onSearch
Init == InitWith("none")

\* SearchForm mounted with any onSearch prop
FormInit == \E onSearch \in OnSearchModes : InitWith(onSearch)

----------------------------------------------------------------------------
(* HomePage's statistics *)

\* the getStats request settles: the rest of loadStats
StatsSettle(resp) ==
    /\ route = "home"
    /\ statsPending
    /\ statsPending' = FALSE
    /\ LET outcome == getStats(resp)
       IN  IF outcome.fulfilled
           THEN stats' = SetStats(stats, outcome.value)
           ELSE UNCHANGED stats
    /\ lastEvent' = Event("statsSettle", NoRequest, resp)
    /\ UNCHANGED <<route, formVars, pageVars, modalVars, sfOnSearch, apiVars>>

----------------------------------------------------------------------------
(* SearchForm on the home page *)

\* Tabs onValueChange
SetQueryType(ty) ==
    /\ route = "home"
    /\ sfQueryType' = ty
    /\ lastEvent' = Event("setQueryType", NoRequest, NoResponse)
    /\ UNCHANGED <<homeVars, sfOnSearch, apiVars>>
    /\ UNCHANGED <<route, sfQuery, sfIsLoading, sfError, pageVars, modalVars>>

\* Input / Textarea onChange
SetQuery(t) ==
    /\ route = "home"
    /\ sfQuery' = t
    /\ lastEvent' = Event("setQuery", NoRequest, NoResponse)
    /\ UNCHANGED <<homeVars, sfOnSearch, apiVars>>
    /\ UNCHANGED <<route, sfQueryType, sfIsLoading, sfError, pageVars, modalVars>>

\* handleSubmit with an empty or blank query
SubmitRejected ==
    /\ route = "home"
    /\ ~SearchFormAccepts(sfQuery)
    /\ sfError' = "Please enter a search query"
    /\ lastEvent' = Event("submitRejected", NoRequest, NoResponse)
    /\ UNCHANGED <<homeVars, sfOnSearch, apiVars>>
    /\ UNCHANGED <<route, sfQueryType, sfQuery, sfIsLoading, pageVars, modalVars>>

\* handleSubmit with a query: router.push, then the results page mounts and its
\* effect runs on the pushed URL
SubmitNavigate ==
    /\ route = "home"
    /\ SearchFormAccepts(sfQuery)
    /\ sfOnSearch = "none"
    /\ sfError' = SubmitCatch(FALSE).error
    /\ sfIsLoading' = SubmitFinally(TRUE)
    /\ route' = "results"
    /\ url' = PushedUrl(sfQuery, sfQueryType)
    /\ UrlEffect(url')
    /\ lastEvent' = SubmitEvent("submitNavigate", <<>>, <<url'>>, SubmitCatch(FALSE).escaped)
    /\ HomePageUnmounts
    /\ UNCHANGED <<sfOnSearch, apiVars>>
    /\ UNCHANGED <<sfQueryType, sfQuery, drugs, selectedDrug, modalVars>>

\* handleSubmit with a query and an onSearch prop: onSearch(query, queryType),
\* which returns or throws
SubmitOnSearch ==
    /\ route = "home"
    /\ SearchFormAccepts(sfQuery)
    /\ sfOnSearch # "none"
    /\ LET caught == SubmitCatch(sfOnSearch = "throws")
       IN  /\ sfError' = caught.error
           /\ lastEvent' = SubmitEvent("submitOnSearch", <<<<sfQuery, sfQueryType>>>>,
                                       <<>>, caught.escaped)
    /\ sfIsLoading' = SubmitFinally(TRUE)
    /\ UNCHANGED <<route, sfQueryType, sfQuery, sfOnSearch, pageVars, modalVars,
                   homeVars, apiVars>>

\* handleSubmit with a query and no onSearch prop, when router.push throws
SubmitPushThrows ==
    /\ route = "home"
    /\ SearchFormAccepts(sfQuery)
    /\ sfOnSearch = "none"
    /\ LET caught == SubmitCatch(TRUE)
       IN  /\ sfError' = caught.error
           /\ lastEvent' = SubmitEvent("submitPushThrows", <<>>,
                                       <<PushedUrl(sfQuery, sfQueryType)>>, caught.escaped)
    /\ sfIsLoading' = SubmitFinally(TRUE)
    /\ UNCHANGED <<route, sfQueryType, sfQuery, sfOnSearch, pageVars, modalVars,
                   homeVars, apiVars>>

----------------------------------------------------------------------------
(* Results page *)

\* /results opened by the header link, a bookmark or the address bar
OpenResults(u) ==
    /\ route = "home"
    /\ route' = "results"
    /\ url' = u
    /\ UrlEffect(u)
    /\ lastEvent' = Event("openResults", NoRequest, NoResponse)
    /\ HomePageUnmounts
    /\ UNCHANGED <<sfOnSearch, apiVars>>
    /\ UNCHANGED <<formVars, drugs, selectedDrug, modalVars>>

\* the search parameters change while the page stays mounted
UrlChange(u) ==
    /\ route = "results"
    /\ u # url
    /\ UrlHasSearch(u) => Len(searches) < MaxSearches
    /\ url' = u
    /\ UrlEffect(u)
    /\ lastEvent' = Event("urlChange", NoRequest, NoResponse)
    /\ UNCHANGED <<homeVars, sfOnSearch, apiVars>>
    /\ UNCHANGED <<route, formVars, drugs, selectedDrug, modalVars>>

\* SearchBar submits a non-empty text: handleNewSearch(newQuery)
SearchBarSubmit(t) ==
    /\ route = "results"
    /\ t # EmptyText
    /\ Len(searches) < MaxSearches
    /\ StartSearch(t, queryType)
    /\ lastEvent' = Event("searchBar", NoRequest, NoResponse)
    /\ UNCHANGED <<homeVars, sfOnSearch, apiVars>>
    /\ UNCHANGED <<route, formVars, url, drugs, selectedDrug, query, queryType, modalVars>>

RemoveAt(s, i) == SubSeq(s, 1, i - 1) \o SubSeq(s, i + 1, Len(s))

\* the last step issued a search: it is the last of those in flight
JustIssued ==
    /\ searches # <<>>
    /\ \/ lastEvent.op = "searchBar"
       \/ lastEvent.op \in {"openResults", "urlChange", "submitNavigate"} /\ UrlHasSearch(url)

\* a search request settles: the rest of performSearch
SearchSettle(i, resp) ==
    /\ route = "results"
    /\ LET outcome == searchDrugs(resp)
       IN  /\ IF outcome.fulfilled
              THEN drugs' = SetDrugs(drugs, outcome.results) /\ UNCHANGED error
              ELSE error' = CaughtMessage(outcome) /\ drugs' = DrugsAfterFailure(drugs)
           /\ isLoading' = FALSE
    /\ searches' = RemoveAt(searches, i)
    /\ lastEvent' = [Event("searchSettle", searches[i], resp) EXCEPT
                         !.overtook = /\ JustIssued
                                      /\ i = Len(searches) /\ i > 1
                                      /\ searchDrugs(resp).fulfilled]
    /\ UNCHANGED <<homeVars, sfOnSearch, apiVars>>
    /\ UNCHANGED <<route, formVars, url, selectedDrug, query, queryType, modalVars>>

\* 'Back to Home' and the header's home link: the page unmounts
BackToHome ==
    /\ route = "results"
    /\ route' = "home"
    /\ FreshForm
    /\ url' = NoParams
    /\ drugs' = <<>>
    /\ isLoading' = TRUE
    /\ error' = Null
    /\ selectedDrug' = NoDrugId
    /\ query' = EmptyText
    /\ queryType' = "gene"
    /\ searches' = <<>>
    /\ FreshModal
    /\ lastEvent' = Event("backToHome", NoRequest, NoResponse)
    /\ HomePageMounts
    /\ sfOnSearch' = "none"
    /\ UNCHANGED apiVars

----------------------------------------------------------------------------
(* Drug detail modal *)

\* loadDrugDetails up to its await
StartDetail(id) ==
    /\ mIsLoading' = TRUE
    /\ details' = Append(details, id)

\* a handler that selects nothing
SelectedOnViewNull(drug) == NoDrugId

\* onViewDetails: (drug) => setSelectedDrug(drug.chembl_id)
SelectedOnView(drug) == drug.chembl_id

\* 'View Details' on card k: setSelectedDrug(drug.chembl_id); the modal mounts,
\* or its chemblId prop changes, and its effect runs
ViewDetails(k) ==
    /\ route = "results"
    /\ k \in 1..Min(Len(Cards), MaxCard)
    /\ selectedDrug # Cards[k].chembl_id
    /\ Len(details) < MaxDetails
    /\ selectedDrug' = SelectedOnView(Cards[k])
    /\ IF selectedDrug = NoDrugId
       THEN /\ mDrug' = NoDrug
            /\ mError' = Null
            /\ mIsLoading' = TRUE
            /\ details' = <<selectedDrug'>>
            /\ mFresh' = TRUE
       ELSE /\ StartDetail(selectedDrug')
            /\ mFresh' = FALSE
            /\ UNCHANGED <<mDrug, mError>>
    /\ lastEvent' = Event("viewDetails", NoRequest, NoResponse)
    /\ UNCHANGED <<homeVars, sfOnSearch, apiVars>>
    /\ UNCHANGED <<route, formVars, url, drugs, isLoading, error, query, queryType, searches>>

\* the modal's close button: setSelectedDrug(null); the modal unmounts
CloseModal ==
    /\ route = "results"
    /\ selectedDrug # NoDrugId
    /\ selectedDrug' = NoDrugId
    /\ FreshModal
    /\ lastEvent' = Event("closeModal", NoRequest, NoResponse)
    /\ UNCHANGED <<homeVars, sfOnSearch, apiVars>>
    /\ UNCHANGED <<route, formVars, url, drugs, isLoading, error, query, queryType, searches>>

\* a detail request settles: the rest of loadDrugDetails
DetailSettle(i, resp) ==
    /\ route = "results"
    /\ LET outcome == getDrugDetails(resp)
       IN  /\ IF outcome.fulfilled
              THEN mDrug' = outcome.drug /\ UNCHANGED mError
              ELSE mError' = ModalCaughtMessage(outcome) /\ UNCHANGED mDrug
           /\ mIsLoading' = FALSE
    /\ details' = RemoveAt(details, i)
    /\ lastEvent' = Event("detailSettle", NoRequest, resp)
    /\ UNCHANGED <<homeVars, sfOnSearch, apiVars>>
    /\ UNCHANGED <<route, formVars, pageVars, mFresh>>

----------------------------------------------------------------------------
(* lib/api.ts called directly *)

\* maxResults values of direct calls
ApiMaxResults == {1, PageMaxResults, MaxResultsCeiling}

\* params of direct searchDrugs calls
ApiParams ==
    {[query |-> q, queryType |-> ty, maxResults |-> m] :
        q \in Texts, ty \in QueryTypes, m \in ApiMaxResults}

\* identifiers of direct getDrugDetails calls
ApiIds == {1, 2}

\* a function of lib/api.ts is called and runs up to its await
ApiCall(fn, args, fetches) ==
    /\ route = "home"
    /\ apiPending = <<>>
    /\ apiPending' = fetches
    /\ apiCall' = Call(fn, args)
    /\ lastEvent' = Event("apiCall", NoRequest, NoResponse)
    /\ UNCHANGED <<route, formVars, pageVars, modalVars, homeVars, sfOnSearch>>

CallSearchDrugs(params) == ApiCall("searchDrugs", params, SearchFetch(params))

CallGetDrugDetails(chemblId) == ApiCall("getDrugDetails", chemblId, DetailFetch(chemblId))

CallGetStats == ApiCall("getStats", <<>>, StatsFetch)

CallHealthCheck == ApiCall("healthCheck", <<>>, HealthFetch)

\* the fetch of the call is answered and the call's promise settles
ApiSettle(resp) ==
    /\ route = "home"
    /\ Len(apiPending) = 1
    /\ apiPending' = <<>>
    /\ apiCall' = [apiCall EXCEPT !.settled = TRUE, !.outcome = Settle(apiCall.fn, resp)]
    /\ lastEvent' = Event("apiSettle", NoRequest, resp)
    /\ UNCHANGED <<route, formVars, pageVars, modalVars, homeVars, sfOnSearch>>

----------------------------------------------------------------------------
(* Specifications *)

FormNext ==
    \/ \E ty \in QueryTypes : SetQueryType(ty)
    \/ \E t \in Texts : SetQuery(t)
    \/ SubmitRejected
    \/ SubmitNavigate

SearchNext ==
    \/ \E u \in Urls : OpenResults(u)
    \/ \E u \in Urls : UrlChange(u)
    \/ \E t \in BarTexts : SearchBarSubmit(t)
    \/ \E i \in 1..Len(searches) :
         \E resp \in ServerSearch(searches[i]) \cup TransportResponses :
            SearchSettle(i, resp)
    \/ BackToHome

DetailNext ==
    \/ \E k \in 1..Len(drugs) : ViewDetails(k)
    \/ CloseModal
    \/ \E i \in 1..Len(details) :
         \E resp \in ServerDrug(details[i]) \cup TransportResponses :
            DetailSettle(i, resp)

\* the search flow: home page, navigation, searches of the results page
Next == FormNext \/ SearchNext

Spec == Init /\ [][Next]_vars

\* the URL of an ordinary search
SampleUrl == UrlParams(TRUE, <<"a">>, TRUE, "gene")

\* the detail flow: one search at a time, then the modal over its results
DetailFlowNext ==
    \/ OpenResults(SampleUrl)
    \/ /\ Len(searches) = 1
       /\ \E resp \in ServerSearch(searches[1]) \cup TransportResponses :
            SearchSettle(1, resp)
    \/ BackToHome
    \/ DetailNext

DetailSpec == Init /\ [][DetailFlowNext]_vars

\* searches one after another and over one another on a results page opened on
\* an ordinary search
RetryNext ==
    \/ OpenResults(SampleUrl)
    \/ \E u \in {NoParams, SampleUrl} : UrlChange(u)
    \/ \E t \in BarTexts : SearchBarSubmit(t)
    \/ \E i \in 1..Len(searches) :
         \E resp \in ServerSearch(searches[i]) \cup TransportResponses :
            SearchSettle(i, resp)
    \/ BackToHome

RetrySpec == Init /\ [][RetryNext]_vars

\* SearchForm as a component: any onSearch prop, a router whose push may throw
FormFlowNext ==
    \/ FormNext
    \/ SubmitOnSearch
    \/ SubmitPushThrows
    \/ BackToHome

FormSpec == FormInit /\ [][FormFlowNext]_vars

\* the home page: its statistics and its search form
HomeNext ==
    \/ \E resp \in ServerStats \cup BodyTransportResponses : StatsSettle(resp)
    \/ FormNext
    \/ BackToHome

HomeSpec == Init /\ [][HomeNext]_vars

\* the HTTP client on its own: one call at a time
ApiNext ==
    \/ \E params \in ApiParams : CallSearchDrugs(params)
    \/ \E chemblId \in ApiIds : CallGetDrugDetails(chemblId)
    \/ CallGetStats
    \/ CallHealthCheck
    \/ /\ Len(apiPending) = 1
       /\ \E resp \in Serve(apiPending[1]) : ApiSettle(resp)

ApiSpec == Init /\ [][ApiNext]_vars

----------------------------------------------------------------------------
(* Properties *)

\* the last step was a search request settling
SearchSettled == lastEvent.op = "searchSettle"

\* the last step was a detail request settling
DetailSettled == lastEvent.op = "detailSettle"

\* the exchange was answered with a non-OK status
NonOk(resp) == resp.net /\ ~resp.ok

\* the exchange was answered OK with a JSON body
Succeeded(resp) == resp.net /\ resp.ok /\ resp.json

\* every drug record the client holds: the page's list and the modal's record
HeldDrugs ==
    {drugs[i] : i \in 1..Len(drugs)} \cup (IF mDrug = NoDrug THEN {} ELSE {mDrug})

\* every drug record on screen: the cards, and the modal's record under its tabs
ShownDrugs ==
    {Cards[i] : i \in 1..Len(Cards)} \cup (IF ModalShowsTabs THEN {mDrug} ELSE {})

SortedDesc(ds) ==
    \A i \in 1..Len(ds) - 1 : ds[i].binding_score >= ds[i + 1].binding_score

C2_ResultsSorted == SortedDesc(drugs) /\ SortedDesc(Cards)

\* C2 case: a search has just succeeded and its cards have different scores
C2_Witness ==
    /\ SearchSettled /\ Succeeded(lastEvent.resp)
    /\ Len(Cards) >= 2
    /\ Cards[1].binding_score > Cards[Len(Cards)].binding_score

\* C3: the page never holds or renders more drugs than the maxResults (20) it asks for
C3_CountWithinMax ==
    /\ Len(drugs) <= 20
    /\ Len(Cards) <= 20
    /\ \A i \in 1..Len(searches) : searches[i].max_results = 20

\* C3 case: a search that matched more than 20 candidates has settled with 20 cards
C3_Witness ==
    /\ SearchSettled /\ Succeeded(lastEvent.resp)
    /\ NumDrugs > 20
    /\ Len(Cards) = 20

\* C4: for every drug on screen the drug-likeness shown (card badge, modal badge)
\* is true exactly when molecular_weight < 500, logp < 5, hbd <= 5 and hba <= 10,
\* and agrees with the conjunction of the modal's four RuleCheck rows
C4_DrugLikeMatchesLipinski ==
    \A d \in ShownDrugs :
        /\ CardShowsDrugLike(d) <=>
              (d.molecular_weight < 500 /\ d.logp < 5 /\ d.hbd <= 5 /\ d.hba <= 10)
        /\ ModalPassesLipinski(d) <=> AllRulesPass(d)
        /\ CardShowsDrugLike(d) <=> ModalPassesLipinski(d)

\* C4 case: the modal shows a drug that passes with every property on its
\* threshold, over a grid that also holds a drug failing one rule
C4_Witness ==
    /\ ModalShowsTabs
    /\ ModalPassesLipinski(mDrug)
    /\ mDrug.molecular_weight = 499 /\ mDrug.logp = 4 /\ mDrug.hbd = 5 /\ mDrug.hba = 10
    /\ \E i \in 1..Len(Cards) : ~CardShowsDrugLike(Cards[i])

\* C5: when GET /api/drug/{id} answers non-OK, the modal's error is the body's
\* detail, or 'Drug not found' when the body is not JSON or has no detail, and
\* loading is over; in a modal whose chemblId has not changed since it mounted the
\* drug is null, the error box is rendered and the tabs are not
C5_UnknownDrugIsNotFound ==
    (DetailSettled /\ NonOk(lastEvent.resp)) =>
        /\ mError = (IF lastEvent.resp.json /\ lastEvent.resp.hasDetail
                     THEN lastEvent.resp.detail ELSE "Drug not found")
        /\ ~mIsLoading
        /\ mFresh => (mDrug = NoDrug /\ ModalShowsError /\ ~ModalShowsTabs)

\* C5 case: a freshly mounted modal whose request was answered 404 with a detail
C5_Witness ==
    /\ DetailSettled /\ NonOk(lastEvent.resp)
    /\ lastEvent.resp.status = 404
    /\ mFresh
    /\ mError = "Drug not found in database"

\* C6: every request to POST /api/search carries a query_type among 'gene',
\* 'disease' and 'sequence'
C6_QueryTypeInEnum ==
    \A i \in 1..Len(searches) : searches[i].query_type \in QueryTypes

\* C7: binding_score is in [0,100] for every drug record held, so the width of
\* every binding-score bar on screen is between 0% and 100%
C7_ScoreInRange ==
    /\ \A d \in HeldDrugs : d.binding_score >= 0 /\ d.binding_score <= 100
    /\ \A d \in ShownDrugs : BarWidth(d) >= 0 /\ BarWidth(d) <= 100

\* C7 case: a card with a full bar under a modal showing its record
C7_Witness ==
    /\ ModalShowsTabs
    /\ \E i \in 1..Len(Cards) : BarWidth(Cards[i]) = 100
    /\ BarWidth(mDrug) >= 0

\* C8: clinical_phase is one of 0..4 for every drug record held, and so is every
\* argument handed to getClinicalPhaseLabel / getClinicalPhaseColor
C8_PhaseInRange ==
    /\ \A d \in HeldDrugs : d.clinical_phase \in 0..4
    /\ \A d \in ShownDrugs : PhaseArg(d) \in 0..4

\* C8 case: cards of phase 0 and of phase 4 under a modal showing its record
C8_Witness ==
    /\ ModalShowsTabs
    /\ \E i \in 1..Len(Cards) : PhaseArg(Cards[i]) = 0
    /\ \E i \in 1..Len(Cards) : PhaseArg(Cards[i]) = 4

\* C9: right after a search succeeds with zero results the page has error null,
\* isLoading false and no drugs, shows 'Found 0 potential drug candidates' and the
\* 'No results found' card, and does not show the 'Search Error' card
C9_NoMatchesIsEmptyList ==
    (SearchSettled /\ Succeeded(lastEvent.resp) /\ lastEvent.resp.results = <<>>) =>
        /\ error = Null
        /\ ~isLoading
        /\ drugs = <<>>
        /\ ShowsSummary /\ SummaryCount = 0
        /\ ShowsNoResults
        /\ ~ShowsSearchError

\* C10: right after POST /api/search is answered non-OK the page's error is the
\* body's detail when present, 'Search failed' when the body is not JSON or has
\* no detail, and isLoading is false
C10_SearchErrorSurfaces ==
    (SearchSettled /\ NonOk(lastEvent.resp)) =>
        /\ error = (IF lastEvent.resp.json /\ lastEvent.resp.hasDetail
                    THEN lastEvent.resp.detail ELSE "Search failed")
        /\ ~isLoading

\* C10 case: a search with an unknown type was answered 422 with a detail
C10_Witness ==
    /\ SearchSettled /\ NonOk(lastEvent.resp)
    /\ lastEvent.resp.status = 422
    /\ error = "Invalid query type"
    /\ ~isLoading

\* the exchange was answered with a server-side (5xx) status
ServerSide(resp) == NonOk(resp) /\ resp.status >= 500 /\ resp.status <= 599

\* C11: right after /api/search or /api/drug/{id} is answered 5xx, the message
\* the results page or the detail modal shows is the fixed generic text of the
\* call ('Search failed', 'Drug not found') and not the detail of the response body
C11_ServerErrorIsGeneric ==
    /\ (SearchSettled /\ ServerSide(lastEvent.resp)) =>
          /\ error = "Search failed"
          /\ lastEvent.resp.hasDetail => error # lastEvent.resp.detail
    /\ (DetailSettled /\ ServerSide(lastEvent.resp)) =>
          /\ mError = "Drug not found"
          /\ lastEvent.resp.hasDetail => mError # lastEvent.resp.detail

\* C12: a call searchDrugs(params) puts exactly one fetch on the wire, a POST to
\* /api/search whose body is {query: params.query, query_type: params.queryType,
\* max_results: params.maxResults}; when it is answered OK with a JSON body the
\* promise is fulfilled with the body's results as they are
C12_SearchDrugsContract ==
    apiCall.fn = "searchDrugs" =>
        /\ ~apiCall.settled =>
              /\ Len(apiPending) = 1
              /\ apiPending[1].method = "POST"
              /\ apiPending[1].path = <<"api", "search">>
              /\ apiPending[1].hasBody
              /\ apiPending[1].body = [query |-> apiCall.args.query,
                                       query_type |-> apiCall.args.queryType,
                                       max_results |-> apiCall.args.maxResults]
        /\ (apiCall.settled /\ Succeeded(lastEvent.resp)) =>
              /\ apiPending = <<>>
              /\ apiCall.outcome.fulfilled
              /\ apiCall.outcome.results = lastEvent.resp.results

\* C12 case: searchDrugs called with maxResults 1 was answered with one ranked drug
C12_Witness ==
    /\ apiCall.fn = "searchDrugs" /\ apiCall.settled
    /\ apiCall.args.maxResults = 1
    /\ Succeeded(lastEvent.resp)
    /\ Len(apiCall.outcome.results) = 1

\* C13: every request to POST /api/search in flight carries a max_results between
\* 1 and the documented ceiling 100, and that value is the default 20 whether the
\* URL effect or the search bar issued it
C13_MaxResultsWithinBound ==
    \A i \in 1..Len(searches) :
        /\ searches[i].max_results >= 1
        /\ searches[i].max_results <= MaxResultsCeiling
        /\ searches[i].max_results = PageMaxResults

\* C13 case: a URL-driven search and a search-bar search are in flight together
C13_Witness ==
    /\ lastEvent.op = "searchBar"
    /\ Len(searches) = 2
    /\ searches[1].query = url.q
    /\ searches[2].max_results = 20

\* the last step was the home page's getStats request settling
StatsSettled == lastEvent.op = "statsSettle"

\* C14: while getStats is pending the home page shows the defaults 3000, 20000 and
\* 150000; when it settles, an OK JSON answer replaces all three values by the
\* response, and any failure leaves the three values as they were, the defaults,
\* and puts no error on the page (the form's error text is untouched)
C14_StatsTolerant ==
    [][/\ statsPending =>
            stats = [total_drugs |-> 3000, total_targets |-> 20000,
                     predictions_made |-> 150000]
       /\ StatsSettled' =>
            /\ ~statsPending'
            /\ IF Succeeded(lastEvent'.resp)
               THEN stats' = lastEvent'.resp.body
               ELSE /\ stats' = stats
                    /\ stats' = DefaultStats
                    /\ sfError' = sfError]_vars

\* C14 case: getStats succeeded and the page shows the response, not the defaults
C14_Witness ==
    /\ StatsSettled /\ Succeeded(lastEvent.resp)
    /\ stats.total_drugs = 3200 /\ stats.total_targets = 23200
    /\ stats.predictions_made = 32000

\* C15: a call healthCheck() puts one GET to /health on the wire, and when it is
\* answered OK with a JSON body the resolved value has the fields status and service
C15_HealthCheckContract ==
    apiCall.fn = "healthCheck" =>
        /\ ~apiCall.settled =>
              /\ Len(apiPending) = 1
              /\ apiPending[1].method = "GET"
              /\ apiPending[1].path = <<"health">>
        /\ (apiCall.settled /\ Succeeded(lastEvent.resp)) =>
              /\ apiCall.outcome.fulfilled
              /\ {"status", "service"} \subseteq DOMAIN apiCall.outcome.value

\* the last step was handleSubmit passing its validation
SubmitAccepted == lastEvent.op \in {"submitNavigate", "submitOnSearch", "submitPushThrows"}

\* C16: a submit whose query is non-empty after trimming either, with an onSearch
\* prop, calls onSearch(query, queryType) once and pushes no URL, or, without one,
\* calls nothing and pushes one URL, /results with q the untrimmed query and type
\* the selected tab's query type, which is where the results page then is
C16_SubmitCallsOrNavigates ==
    SubmitAccepted =>
        /\ Trim(sfQuery) # EmptyText
        /\ IF sfOnSearch # "none"
           THEN /\ lastEvent.called = <<<<sfQuery, sfQueryType>>>>
                /\ lastEvent.pushed = <<>>
                /\ route = "home"
           ELSE /\ lastEvent.called = <<>>
                /\ lastEvent.pushed = <<UrlParams(TRUE, sfQuery, TRUE, sfQueryType)>>
                /\ lastEvent.op = "submitNavigate" =>
                      route = "results" /\ url = lastEvent.pushed[1]

\* C16 case: a query with a leading blank was submitted on the disease tab and the
\* results page is at the URL that carries it untrimmed
C16_Witness ==
    /\ lastEvent.op = "submitNavigate"
    /\ sfQuery = <<" ", "a">> /\ sfQueryType = "disease"
    /\ route = "results"
    /\ url.q = <<" ", "a">> /\ url.type = "disease"

\* C17: a submit is rejected exactly when the query is empty after trimming; a
\* rejected submit leaves error 'Please enter a search query', calls neither
\* onSearch nor router.push and leaves isLoading false; a submit that is accepted
\* and meets no exception leaves error empty
C17_SubmitValidation ==
    /\ lastEvent.op = "submitRejected" =>
          /\ Trim(sfQuery) = EmptyText
          /\ sfError = "Please enter a search query"
          /\ lastEvent.called = <<>> /\ lastEvent.pushed = <<>>
          /\ route = "home"
          /\ ~sfIsLoading
    /\ SubmitAccepted => Trim(sfQuery) # EmptyText
    /\ (\/ lastEvent.op = "submitNavigate"
        \/ lastEvent.op = "submitOnSearch" /\ sfOnSearch = "returns") =>
          sfError = ""

\* C17 case: a blank query was submitted and rejected
C17_Witness ==
    /\ lastEvent.op = "submitRejected"
    /\ sfQuery = <<" ">>
    /\ sfError = "Please enter a search query"
    /\ ~sfIsLoading

\* C19: after handleSubmit, on each of its paths, isLoading is false and no
\* exception has left the handler; when onSearch or router.push threw, error is
\* 'Search failed. Please try again.'
C19_SubmitEndsLoading ==
    /\ (SubmitAccepted \/ lastEvent.op = "submitRejected") =>
          ~sfIsLoading /\ ~lastEvent.escaped
    /\ (\/ lastEvent.op = "submitPushThrows"
        \/ lastEvent.op = "submitOnSearch" /\ sfOnSearch = "throws") =>
          sfError = "Search failed. Please try again."

\* C19 case: onSearch threw
C19_Witness ==
    /\ lastEvent.op = "submitOnSearch" /\ sfOnSearch = "throws"
    /\ lastEvent.called = <<<<sfQuery, sfQueryType>>>>
    /\ sfError = "Search failed. Please try again."
    /\ ~sfIsLoading

\* the last step ran the results page's effect on the search parameters
UrlEffectRan == lastEvent.op \in {"openResults", "urlChange", "submitNavigate"}

\* C18: when the effect on the search parameters runs, if q and type are both
\* present and non-empty then query and queryType are set from the URL and one
\* request with max_results 20 is added to those in flight; otherwise no request is
\* added, isLoading is false and the 'Enter a search query' initial state is shown
C18_UrlEffectSearchesIffBoth ==
    [][UrlEffectRan' =>
          IF url'.hasQ /\ url'.q # EmptyText /\ url'.hasType /\ url'.type # ""
          THEN /\ query' = url'.q
               /\ queryType' = url'.type
               /\ searches' = Append(searches, [query |-> url'.q,
                                                query_type |-> url'.type,
                                                max_results |-> 20])
          ELSE /\ searches' = searches
               /\ ~isLoading'
               /\ ShowsInitial']_vars

C21_CountIsCardCount ==
    /\ (route = "results" /\ ShowsSummary) =>
          /\ ~isLoading /\ error = Null
          /\ SummaryCount = Len(Cards)
          /\ SummaryCount = Len(drugs)
    /\ (SearchSettled /\ Succeeded(lastEvent.resp) /\ ShowsSummary) =>
          SummaryCount = Len(lastEvent.resp.results)

\* C21 case: 22 candidates matched, 20 came back with total 22, and the summary
\* says 20 over 20 cards
C21_Witness ==
    /\ SearchSettled /\ Succeeded(lastEvent.resp)
    /\ lastEvent.resp.total = 22
    /\ ShowsSummary
    /\ SummaryCount = 20 /\ Len(Cards) = 20

\* C22: when the most recently issued search has succeeded while an older one was
\* still in flight, and that older one then settles as the last request in flight,
\* the drugs on display are still the results of the most recently issued search
C22_LatestSearchWins ==
    [][(/\ SearchSettled /\ lastEvent.overtook
        /\ lastEvent'.op = "searchSettle"
        /\ searches' = <<>>)
          => /\ drugs' = lastEvent.resp.results
             /\ Cards' = lastEvent.resp.results]_vars

\* C23: on the results page, while at least one search request is in flight
\* isLoading is true, so neither the results summary nor the 'No results found'
\* card is on screen
C23_LoadingWhileInFlight ==
    (route = "results" /\ searches # <<>>) =>
        /\ isLoading
        /\ ~ShowsSummary
        /\ ~ShowsNoResults

\* C24: a search that fails leaves drugs, query, queryType and selectedDrug as
\* they were and sets error and isLoading only, so the list of the previous
\* successful search is rendered by DrugGrid under the 'Search Error' card; while
\* the page is mounted drugs changes only when a search succeeds
C24_FailedSearchKeepsDrugs ==
    [][/\ (lastEvent'.op = "searchSettle" /\ ~Succeeded(lastEvent'.resp)) =>
            /\ drugs' = drugs
            /\ <<query, queryType, selectedDrug, url>>' = <<query, queryType, selectedDrug, url>>
            /\ ~isLoading' /\ error' # Null
            /\ ShowsSearchError'
            /\ Cards' = drugs
       /\ (route = "results" /\ route' = "results" /\ drugs' # drugs) =>
            /\ lastEvent'.op = "searchSettle" /\ Succeeded(lastEvent'.resp)
            /\ drugs' = lastEvent'.resp.results]_vars

\* C24 case: a search failed over the five drugs of an earlier one, which are
\* still rendered under the error card
C24_Witness ==
    /\ SearchSettled /\ ~Succeeded(lastEvent.resp)
    /\ Len(drugs) = 5 /\ Len(Cards) = 5
    /\ ShowsSearchError
    /\ ~isLoading

\* C25: when the only search in flight succeeds, the page is not loading, holds
\* that search's results and shows 'Showing results for:' with the query that
\* search was issued with, whether the URL effect or the search bar issued it
C25_LabelMatchesResults ==
    [][(/\ lastEvent'.op = "searchSettle" /\ Succeeded(lastEvent'.resp)
        /\ Len(searches) = 1)
          => /\ ~isLoading'
             /\ drugs' = lastEvent'.resp.results
             /\ ShowsQueryLabel'
             /\ query' = searches[1].query]_vars

\* C26: right after a search succeeds the grid renders the elements of
\* response.results as its cards, one card per element, in the same order and
\* number: nothing is sorted, filtered, merged or cut on the client
C26_ClientKeepsRanking ==
    (SearchSettled /\ Succeeded(lastEvent.resp)) =>
        /\ Len(Cards) = Len(lastEvent.resp.results)
        /\ \A k \in 1..Len(Cards) : Cards[k] = lastEvent.resp.results[k]
        /\ drugs = lastEvent.resp.results

\* C26 case: five ranked results, some of them not drug-like, arrived and are the
\* five cards in the server's order
C26_Witness ==
    /\ SearchSettled /\ Succeeded(lastEvent.resp)
    /\ Len(lastEvent.resp.results) = 5
    /\ \E k \in 1..5 : ~lastEvent.resp.results[k].is_drug_like
    /\ Cards = lastEvent.resp.results

\* C27: in a mounted modal with no detail request in flight, whatever the number
\* of chemblId changes before, the record under the tabs is that of the current
\* chemblId, the error box and the tabs are not both on screen, and right after a
\* request has succeeded no error is visible
C27_ModalShowsCurrentDrug ==
    (ShowsModal /\ details = <<>>) =>
        /\ ModalShowsTabs => mDrug.chembl_id = selectedDrug
        /\ ~(ModalShowsError /\ ModalShowsTabs)
        /\ (DetailSettled /\ Succeeded(lastEvent.resp)) => ~ModalShowsError

\* what 'View Details' and the modal's close button leave alone on the page
SelectionFrame == <<drugs, query, queryType, error, isLoading, searches, url>>

\* C28: 'View Details' on a card sets selectedDrug to the chembl_id of one of the
\* cards on screen, which puts the modal on screen; closing the modal sets
\* selectedDrug to null, which takes it off; both leave drugs, query, queryType,
\* error and isLoading as they were and add no search request
C28_SelectionFrame ==
    [][/\ lastEvent'.op = "viewDetails" =>
            /\ \E k \in 1..Len(Cards) : selectedDrug' = Cards[k].chembl_id
            /\ selectedDrug' # NoDrugId /\ ShowsModal'
            /\ SelectionFrame' = SelectionFrame
       /\ lastEvent'.op = "closeModal" =>
            /\ ShowsModal
            /\ selectedDrug' = NoDrugId /\ ~ShowsModal'
            /\ SelectionFrame' = SelectionFrame]_vars

\* C28 case: the second card's 'View Details' was used and the modal is on screen
\* over the unchanged list
C28_Witness ==
    /\ lastEvent.op = "viewDetails"
    /\ Len(Cards) >= 2
    /\ selectedDrug = Cards[2].chembl_id
    /\ ShowsModal
    /\ searches = <<>>

\* how many of the grid's three views are on screen
GridViews ==
    (IF Grid.skeletons > 0 THEN 1 ELSE 0) + (IF Grid.message THEN 1 ELSE 0)
        + (IF Len(Grid.cards) > 0 THEN 1 ELSE 0)

\* C29: the grid of the results page shows exactly one of its three views: six
\* skeletons and no card while isLoading, whatever the list holds; the 'No drugs
\* found' message when not loading with an empty list; otherwise one card per drug,
\* in order, keyed by chembl_id, and no message
C29_GridShowsOneView ==
    route = "results" =>
        /\ GridViews = 1
        /\ isLoading =>
              Grid.skeletons = 6 /\ Grid.cards = <<>> /\ ~Grid.message
        /\ (~isLoading /\ Len(drugs) = 0) =>
              Grid.message /\ Grid.skeletons = 0 /\ Grid.cards = <<>>
        /\ (~isLoading /\ Len(drugs) > 0) =>
              /\ Grid.cards = drugs
              /\ Len(Grid.keys) = Len(drugs)
              /\ \A k \in 1..Len(drugs) : Grid.keys[k] = drugs[k].chembl_id
              /\ ~Grid.message /\ Grid.skeletons = 0

\* C29 case: a new search is loading over the list of an earlier one, and the
\* grid shows the six skeletons and none of the five drugs
C29_Witness ==
    /\ route = "results"
    /\ isLoading /\ Len(drugs) = 5
    /\ Grid.skeletons = 6 /\ Grid.cards = <<>>

====
